---------------------------- MODULE Spec2Model ----------------------------
(***************************************************************************)
(* Model of package.py: ModulePackager.__parse_font_xml (the font          *)
(* configuration transform), ModulePackager.package_module (the staging    *)
(* and archive pipeline) and main (the command-line driver).               *)
(*                                                                         *)
(* An XML element is the record                                            *)
(*   [tag, attrib, text, tail, children]                                   *)
(* of xml.etree.ElementTree: attrib is a function from the attribute names *)
(* the element carries to their values, text and tail are sequences of     *)
(* characters (<<>> stands for None: the parser never yields ""), and      *)
(* children is the sequence of child elements.  A character is "NL", "SP", *)
(* "TAB" or a run of non-whitespace characters taken as one symbol.        *)
(***************************************************************************)
EXTENDS Integers, Sequences, FiniteSets, TLC

\* Bound: the number of top-level children of a base document.
MaxChildren == 2

VARIABLES
    pc,                         \* position in main, package_module, __parse_font_xml
    exc,                        \* the exception being raised: [type, at]
    exit_code,                  \* the exit status of the process, once it ended
    font_path,                  \* config.font
    font_name_arg,              \* config.font_name ("" when not given)
    font_config_arg,            \* whether --font-config names a document of its own
    font_state,                 \* what is at font_path: "ok", "missing", "unreadable"
    font_bytes,                 \* the content of the file at font_path
    template_exists,            \* whether the template directory is there
    template,                   \* the tree of the template directory
    base_state,                 \* what is at __base_font_xml_path: "ok", "malformed", "missing"
    base_doc,                   \* the document stored at __base_font_xml_path
    fault,                      \* the step at which the file system fails ("" for none)
    font_file_name,             \* self.__font_file_name
    font_name,                  \* self.__font_name
    kwargs,                     \* the module properties handed to package_module
    temp_exists,                \* whether the TemporaryDirectory is there
    cwd,                        \* the tree staged inside it
    archive_state,              \* "none", "old", "partial" or "complete"
    archive_tree,               \* the tree a complete archive holds
    delivered,                  \* whether main copied the archive beside the script
    root,                       \* tree.getroot(), mutated in place by the loop
    familyset,                  \* the tree being built
    idx,                        \* number of children of root the loop has visited
    family_with_lang_inserted,  \* the loop's flag
    dom_string                  \* the returned text, as a sequence of tokens

env_vars == <<font_path, font_name_arg, font_config_arg, font_state, font_bytes, template_exists,
              template, base_state, base_doc, fault>>
self_vars == <<font_file_name, font_name, kwargs>>
out_vars == <<temp_exists, cwd, archive_state, archive_tree, delivered>>
xml_vars == <<root, familyset, idx, family_with_lang_inserted, dom_string>>
vars == <<pc, exc, exit_code, env_vars, self_vars, out_vars, xml_vars>>

----------------------------------------------------------------------------
(* Elements *)

NoAttrib == [k \in {} |-> ""]

Element(tag, attrib, text, tail, children) ==
    [tag |-> tag, attrib |-> attrib, text |-> text, tail |-> tail,
     children |-> children]

\* familyset.append(x)
Append_child(parent, x) == [parent EXCEPT !.children = Append(@, x)]

\* del child.attrib[key]
DelAttrib(attrib, key) == [k \in (DOMAIN attrib) \ {key} |-> attrib[k]]

Spaces(n) == [i \in 1..n |-> "SP"]

\* One <font weight=.. style=..>text</font>
Font(weight, style, text, tail) ==
    Element("font", [weight |-> weight, style |-> style], <<text>>, tail, <<>>)

\* The rows of the literal at lines 38-49, in the literal's order.
EmptyFonts ==
    << <<"100", "normal", "EmptyFont-Thin.ttf">>,
       <<"100", "italic", "EmptyFont-ThinItalic.ttf">>,
       <<"300", "normal", "EmptyFont-Light.ttf">>,
       <<"300", "italic", "EmptyFont-LightItalic.ttf">>,
       <<"400", "normal", "EmptyFont-Regular.ttf">>,
       <<"400", "italic", "EmptyFont-Italic.ttf">>,
       <<"500", "normal", "EmptyFont-Medium.ttf">>,
       <<"500", "italic", "EmptyFont-MediumItalic.ttf">>,
       <<"900", "normal", "EmptyFont-Black.ttf">>,
       <<"900", "italic", "EmptyFont-BlackItalic.ttf">>,
       <<"700", "normal", "EmptyFont-Bold.ttf">>,
       <<"700", "italic", "EmptyFont-BoldItalic.ttf">> >>

\* ElementTree.fromstring of the literal: the family is indented by 4 spaces,
\* its fonts by 8, and the white space between the tags is kept as text and tail.
sans_serif_family ==
    Element("family", [name |-> "sans-serif"], <<"NL">> \o Spaces(8), <<>>,
            [i \in 1..Len(EmptyFonts) |->
                Font(EmptyFonts[i][1], EmptyFonts[i][2], EmptyFonts[i][3],
                     <<"NL">> \o Spaces(IF i = Len(EmptyFonts) THEN 4 ELSE 8))])

\* f"{i}" for i in range(100, 1000, 100)
Weights == <<"100", "200", "300", "400", "500", "600", "700", "800", "900">>

\* The nine faces both loops at lines 57-60 and 70-73 build.
NormalFonts(file_name) ==
    [i \in 1..Len(Weights) |-> Font(Weights[i], "normal", file_name, <<>>)]

custom_family(file_name) ==
    Element("family", NoAttrib, <<>>, <<>>, NormalFonts(file_name))

family_with_lang(file_name) ==
    Element("family", [lang |-> "zh-Hans"], <<>>, <<>>, NormalFonts(file_name))

----------------------------------------------------------------------------
(* The loop of lines 64-76 *)

\* The flag left out of line 68's condition.
InsertsLang_Always(child, inserted) ==
    "lang" \in DOMAIN child.attrib

\* Lines 66-67: the child after the conditional del.
StripSansSerif(child) ==
    IF "name" \in DOMAIN child.attrib /\ child.attrib["name"] = "sans-serif"
    THEN [child EXCEPT !.attrib = DelAttrib(@, "name")]
    ELSE child

\* Line 68: the condition of the insertion.
InsertsLang(child, inserted) ==
    "lang" \in DOMAIN child.attrib /\ ~inserted

\* Line 65's test of the tag left out.
LoopBody_AnyTag(st, child, file_name) ==
    LET c == StripSansSerif(child)
        ins == InsertsLang(c, st.inserted)
        fs1 == IF ins THEN Append_child(st.familyset, family_with_lang(file_name))
               ELSE st.familyset
    IN  [familyset |-> Append_child(fs1, c),
         inserted |-> (st.inserted \/ ins),
         child |-> c]

\* The del of line 67 put under the flag of line 68.
LoopBody_StripUntilInserted(st, child, file_name) ==
    IF child.tag = "family"
    THEN LET c == IF st.inserted THEN child ELSE StripSansSerif(child)
             ins == InsertsLang(c, st.inserted)
             fs1 == IF ins THEN Append_child(st.familyset, family_with_lang(file_name))
                    ELSE st.familyset
         IN  [familyset |-> Append_child(fs1, c),
              inserted |-> (st.inserted \/ ins),
              child |-> c]
    ELSE [familyset |-> Append_child(st.familyset, child),
          inserted |-> st.inserted,
          child |-> child]

\* Line 76 run before line 74: the child appended before the new family.
LoopBody_InsertAfter(st, child, file_name) ==
    IF child.tag = "family"
    THEN LET c == StripSansSerif(child)
             ins == InsertsLang(c, st.inserted)
             fs1 == Append_child(st.familyset, c)
         IN  [familyset |-> IF ins THEN Append_child(fs1, family_with_lang(file_name))
                            ELSE fs1,
              inserted |-> (st.inserted \/ ins),
              child |-> c]
    ELSE [familyset |-> Append_child(st.familyset, child),
          inserted |-> st.inserted,
          child |-> child]

\* One iteration: st = [familyset, inserted], child = the element visited.
\* Yields the new st and the child as the iteration leaves it in root.
LoopBody(st, child, file_name) ==
    IF child.tag = "family"
    THEN LET c == StripSansSerif(child)
             ins == InsertsLang(c, st.inserted)
             fs1 == IF ins THEN Append_child(st.familyset, family_with_lang(file_name))
                    ELSE st.familyset
         IN  [familyset |-> Append_child(fs1, c),
              inserted |-> (st.inserted \/ ins),
              child |-> c]
    ELSE [familyset |-> Append_child(st.familyset, child),
          inserted |-> st.inserted,
          child |-> child]


----------------------------------------------------------------------------
(* Serialisation: lines 77-80.  The text is a sequence of tokens: a tag     *)
(* (with its attributes) is one token, a character of character data is one. *)

Tok(k, tag, attrib, c) == [k |-> k, tag |-> tag, attrib |-> attrib, c |-> c]
StartTag(tag, attrib) == Tok("start", tag, attrib, "")
EndTag(tag) == Tok("end", tag, NoAttrib, "")
EmptyTag(tag, attrib) == Tok("empty", tag, attrib, "")
XmlDecl == Tok("decl", "xml", NoAttrib, "")
Chr(c) == Tok("chr", "", NoAttrib, c)
Chars(text) == [i \in 1..Len(text) |-> Chr(text[i])]

Whitespace == {"NL", "SP", "TAB"}
IsSpace(t) == t.k = "chr" /\ t.c \in Whitespace
IsNewline(t) == t.k = "chr" /\ t.c = "NL"

\* ElementTree.tostring(element): an element without text and children is
\* written as one empty tag; the tail follows the element.
RECURSIVE tostring(_)
RECURSIVE tostring_all(_, _)
tostring_all(elems, i) ==
    IF i > Len(elems) THEN <<>>
    ELSE tostring(elems[i]) \o tostring_all(elems, i + 1)

tostring(e) ==
    (IF e.text # <<>> \/ e.children # <<>>
     THEN <<StartTag(e.tag, e.attrib)>> \o Chars(e.text)
            \o tostring_all(e.children, 1) \o <<EndTag(e.tag)>>
     ELSE <<EmptyTag(e.tag, e.attrib)>>)
    \o Chars(e.tail)

\* A node of the parsed text: an element with its child nodes, or a text node
\* holding one maximal run of character data.
ElemNode(tag, attrib, childNodes) ==
    [type |-> "elem", tag |-> tag, attrib |-> attrib, data |-> <<>>,
     childNodes |-> childNodes]
TextNode(data) ==
    [type |-> "text", tag |-> "", attrib |-> NoAttrib, data |-> data,
     childNodes |-> <<>>]

\* The position after the run of character data that starts at i.
RECURSIVE RunEnd(_, _)
RunEnd(toks, i) ==
    IF i <= Len(toks) /\ toks[i].k = "chr" THEN RunEnd(toks, i + 1) ELSE i

\* The sibling nodes that start at token i, up to the enclosing end tag.
RECURSIVE ParseNodes(_, _)
ParseNodes(toks, i) ==
    IF i > Len(toks) \/ toks[i].k = "end"
    THEN [nodes |-> <<>>, next |-> i]
    ELSE IF toks[i].k = "decl"
    THEN ParseNodes(toks, i + 1)
    ELSE IF toks[i].k = "chr"
    THEN LET j == RunEnd(toks, i)
             rest == ParseNodes(toks, j)
         IN  [nodes |-> <<TextNode([n \in 1..(j - i) |-> toks[i + n - 1].c])>>
                          \o rest.nodes,
              next |-> rest.next]
    ELSE IF toks[i].k = "empty"
    THEN LET rest == ParseNodes(toks, i + 1)
         IN  [nodes |-> <<ElemNode(toks[i].tag, toks[i].attrib, <<>>)>> \o rest.nodes,
              next |-> rest.next]
    ELSE LET inner == ParseNodes(toks, i + 1)
             rest == ParseNodes(toks, inner.next + 1)
         IN  [nodes |-> <<ElemNode(toks[i].tag, toks[i].attrib, inner.nodes)>>
                          \o rest.nodes,
              next |-> rest.next]

\* xml.dom.minidom.parseString: the document's child nodes.
parseString(toks) == ParseNodes(toks, 1).nodes

Tabs(n) == [i \in 1..n |-> Chr("TAB")]
Newl == <<Chr("NL")>>

\* Node.writexml(writer, indent, addindent="\t", newl="\n") of minidom, with
\* the indent given as its number of tabs.
RECURSIVE writexml(_, _)
RECURSIVE writexml_all(_, _, _)
writexml_all(nodes, i, indent) ==
    IF i > Len(nodes) THEN <<>>
    ELSE writexml(nodes[i], indent) \o writexml_all(nodes, i + 1, indent)

writexml(node, indent) ==
    IF node.type = "text"
    THEN Tabs(indent) \o Chars(node.data) \o Newl
    ELSE IF node.childNodes = <<>>
    THEN Tabs(indent) \o <<EmptyTag(node.tag, node.attrib)>> \o Newl
    ELSE IF Len(node.childNodes) = 1 /\ node.childNodes[1].type = "text"
    THEN Tabs(indent) \o <<StartTag(node.tag, node.attrib)>>
           \o Chars(node.childNodes[1].data) \o <<EndTag(node.tag)>> \o Newl
    ELSE Tabs(indent) \o <<StartTag(node.tag, node.attrib)>> \o Newl
           \o writexml_all(node.childNodes, 1, indent + 1)
           \o Tabs(indent) \o <<EndTag(node.tag)>> \o Newl

\* Document.toprettyxml(indent="\t", encoding="utf-8")
toprettyxml(nodes) == <<XmlDecl>> \o Newl \o writexml_all(nodes, 1, 0)

\* The positions of the line breaks of a text, in order.
NewlinePositions(toks) ==
    SelectSeq([i \in 1..Len(toks) |-> i], LAMBDA i : IsNewline(toks[i]))

\* str.splitlines(): the text between the line breaks; what follows the last
\* line break is a line only when it is not empty.
splitlines(toks) ==
    LET p == NewlinePositions(toks)
        n == Len(p)
        last == IF n = 0 THEN 0 ELSE p[n]
        count == IF last < Len(toks) THEN n + 1 ELSE n
    IN  [k \in 1..count |->
            SubSeq(toks, IF k = 1 THEN 1 ELSE p[k - 1] + 1,
                         IF k <= n THEN p[k] - 1 ELSE Len(toks))]

\* s.strip() is non-empty
NonBlank(line) == \E i \in 1..Len(line) : ~IsSpace(line[i])

\* "".join(lines): the separator forgotten.
RECURSIVE join_NoSeparator(_, _, _)
join_NoSeparator(lines, lo, hi) ==
    IF lo > hi THEN <<>>
    ELSE lines[lo] \o join_NoSeparator(lines, lo + 1, hi)

\* os.linesep.join(lines[lo..hi]), computed by halves.
RECURSIVE join(_, _, _)
join(lines, lo, hi) ==
    IF lo > hi THEN <<>>
    ELSE IF lo = hi THEN lines[lo]
    ELSE LET mid == (lo + hi) \div 2
         IN  join(lines, lo, mid) \o Newl \o join(lines, mid + 1, hi)

\* Line 80: the non-blank lines, joined.
StripBlankLines(toks) ==
    LET kept == SelectSeq(splitlines(toks), NonBlank)
    IN  join(kept, 1, Len(kept))

\* Lines 77-80 together.
PrettyPrint(fs) == StripBlankLines(toprettyxml(parseString(tostring(fs))))

----------------------------------------------------------------------------
(* ElementTree's reading of a text: text is the character data before the   *)
(* first child, tail the character data after the element's end tag.        *)

RECURSIVE FromNodes(_, _)
\* The elements among nodes[i..], each with the text node after it as tail.
FromNodes(nodes, i) ==
    IF i > Len(nodes) THEN <<>>
    ELSE IF nodes[i].type = "text" THEN FromNodes(nodes, i + 1)
    ELSE LET n == nodes[i]
             kids == n.childNodes
             text == IF kids # <<>> /\ kids[1].type = "text" THEN kids[1].data ELSE <<>>
             tail == IF i < Len(nodes) /\ nodes[i + 1].type = "text"
                     THEN nodes[i + 1].data ELSE <<>>
         IN  <<Element(n.tag, n.attrib, text, tail, FromNodes(kids, 1))>>
               \o FromNodes(nodes, i + 1)

\* ElementTree.fromstring(text): the root element.
fromstring(toks) == FromNodes(parseString(toks), 1)[1]

----------------------------------------------------------------------------
(* Whole runs of the loop, for the statements below that speak of the       *)
(* transform of a document.                                                 *)

NewFamilyset == Element("familyset", [version |-> "23"], <<>>, <<>>, <<>>)

RECURSIVE RunLoop(_, _, _, _)
RunLoop(st, children, i, file_name) ==
    IF i > Len(children) THEN st.familyset
    ELSE LET r == LoopBody(st, children[i], file_name)
         IN  RunLoop([familyset |-> r.familyset, inserted |-> r.inserted],
                     children, i + 1, file_name)

\* The tree lines 30-76 build from a parsed document.
TransformTree(doc, file_name) ==
    RunLoop([familyset |-> Append_child(Append_child(NewFamilyset, sans_serif_family),
                                        custom_family(file_name)),
             inserted |-> FALSE],
            doc.children, 1, file_name)

----------------------------------------------------------------------------
(* The files *)

\* A directory tree of a module: the text of module.prop, the text of
\* system/etc/fonts.xml, the files of system/fonts by name, and the rest.
Tree(module_prop, fonts_xml, fonts, rest) ==
    [module_prop |-> module_prop, fonts_xml |-> fonts_xml, fonts |-> fonts,
     rest |-> rest]

EmptyTree == Tree(<<>>, <<>>, [n \in {} |-> ""], {})

\* os.path.basename and os.path.splitext(..)[0], on the paths of the model.
basename(path) ==
    CASE path = "/sdcard/MyFont.ttf" -> "MyFont.ttf"
      [] path = "Other.otf" -> "Other.otf"

splitext0(name) ==
    CASE name = "MyFont.ttf" -> "MyFont"
      [] name = "Other.otf" -> "Other"

\* Lines 144-155: font_name and the module properties, in the dict's order.
FontNameOf(name_arg, path) ==
    IF name_arg # "" THEN name_arg ELSE splitext0(basename(path))

module_props(name) ==
    << <<"id", <<name>> >>,
       <<"name", <<name>> >>,
       <<"version", <<"1.0">> >>,
       <<"versionCode", <<"1">> >>,
       <<"author", <<"getlogin">> >>,
       <<"description", <<"Replace default font with ", name>> >> >>

\* open(path, "a+"): the content kept.
open_a(old) == old

\* open(path, "w+"): the file's content once opened.
open_w(old) == <<>>

\* Lines 90-91: the text the loop writes, f"{k}={v}\n" per item.
RECURSIVE PropText(_, _)
PropText(items, i) ==
    IF i > Len(items) THEN <<>>
    ELSE <<items[i][1], "=">> \o items[i][2] \o <<"NL">> \o PropText(items, i + 1)

\* shutil.copy(src, directory): the directory with the file under src's name.
CopyInto(dir, name, bytes) == (name :> bytes) @@ dir

----------------------------------------------------------------------------
(* The inputs *)

Indent == <<"NL">> \o Spaces(4)

\* A family as a configuration file has it: one face, indented.
PlainFamily(attrib) ==
    Element("family", attrib, <<"NL">> \o Spaces(8), Indent,
            <<Font("400", "normal", "Roboto-Regular.ttf", Indent)>>)

\* <alias .../>
Alias(attrib) == Element("alias", attrib, <<>>, Indent, <<>>)

\* The attributes a top-level child may carry: name and lang, each or none.
AttribOf(name, lang) ==
    [k \in (IF name = "" THEN {} ELSE {"name"}) \cup (IF lang = "" THEN {} ELSE {"lang"})
        |-> IF k = "name" THEN name ELSE lang]

Attribs == {AttribOf(n, l) : n \in {"", "sans-serif", "serif"}, l \in {"", "ja"}}

AttribChildren == {PlainFamily(a) : a \in Attribs} \cup {Alias(a) : a \in Attribs}

DocOf(children) == Element("familyset", [version |-> "23"], Indent, <<>>, children)

SeqsUpTo(S, n) == UNION {[1..m -> S] : m \in 0..n}

\* The documents the transform is checked on.
BaseDocs == {DocOf(cs) : cs \in SeqsUpTo(AttribChildren, MaxChildren)}

\* Children whose text tells the serialisation apart: a face with a variation
\* axis after its file name, a face whose text holds an empty line, a face of
\* white space only, a face with text over two lines and a tail, an empty family.
AxisFont ==
    Element("font", [weight |-> "400", style |-> "normal"],
            <<"RobotoFlex.ttf", "NL">> \o Spaces(12), Indent,
            <<Element("axis", [tag |-> "wght", stylevalue |-> "400"], <<>>,
                      <<"NL">> \o Spaces(8), <<>>)>>)

TextChildren ==
    { PlainFamily([lang |-> "ja"]),
      Alias([name |-> "serif"]),
      Element("family", [name |-> "sans-serif"], <<"NL">> \o Spaces(8), Indent,
              <<AxisFont>>),
      Element("family", NoAttrib, <<>>, <<>>,
              <<Element("font", NoAttrib, <<"Noto.ttf", "NL", "NL", "index=1">>,
                        <<>>, <<>>)>>),
      Element("family", NoAttrib, <<>>, <<"SP">>,
              <<Element("font", NoAttrib, <<"SP">>, <<>>, <<>>)>>),
      Element("family", NoAttrib, <<>>, <<>>,
              <<Element("font", NoAttrib, <<"Noto.ttf", "NL", "index=1">>,
                        <<"index=2">>, <<>>)>>),
      Element("family", [lang |-> "ko"], <<>>, <<>>, <<>>) }

TextDocs == {DocOf(cs) : cs \in SeqsUpTo(TextChildren, MaxChildren)}

\* The documents of the whole-program runs: the specification's example, a
\* document without families, a document whose only lang is on an alias.
SampleDocs ==
    { DocOf(<<PlainFamily([name |-> "sans-serif"]), PlainFamily([lang |-> "ja"])>>),
      DocOf(<<>>),
      DocOf(<<Alias([name |-> "sans-serif-thin", lang |-> "und"]),
              PlainFamily([name |-> "serif"])>>) }

\* The document the template directory ships at system/etc/fonts.xml.
TemplateDoc == DocOf(<<PlainFamily([name |-> "sans-serif"])>>)

FontPaths == {"/sdcard/MyFont.ttf", "Other.otf"}

\* The template directory: its fonts directory holds a file already, in one
\* case under the name of the font to package.
Templates ==
    { Tree(<<"id", "=", "template", "NL">>, tostring(TemplateDoc),
           [n \in {f} |-> "template-font-bytes"],
           {"META-INF/com/google/android/update-binary", "customize.sh"})
      : f \in {"EmptyFont-Regular.ttf", "MyFont.ttf"} }

NoExc == [type |-> "", at |-> ""]

----------------------------------------------------------------------------
(* The program *)

Faults == {"", "module_prop", "font_xml", "make_archive"}

\* The state when main starts.
Init ==
    /\ pc = "main"
    /\ exc = NoExc
    /\ exit_code = 0
    /\ font_path \in FontPaths
    /\ font_name_arg \in {"", "Custom"}
    /\ font_config_arg \in BOOLEAN
    /\ font_state \in {"ok", "missing", "unreadable"}
    /\ font_bytes = "font-bytes"
    /\ template_exists \in BOOLEAN
    /\ template \in Templates
    /\ base_state \in {"ok", "malformed", "missing"}
    /\ base_doc \in SampleDocs \cup {TemplateDoc}
    \* Line 131: without --font-config the document is the template's own.
    /\ ~font_config_arg =>
          /\ base_state = (IF template_exists THEN "ok" ELSE "missing")
          /\ base_doc = fromstring(template.fonts_xml)
    /\ font_config_arg => base_doc \in SampleDocs
    /\ fault \in Faults
    /\ font_file_name = ""
    /\ font_name = ""
    /\ kwargs = <<>>
    /\ temp_exists = FALSE
    /\ cwd = EmptyTree
    /\ archive_state \in {"none", "old"}
    /\ archive_tree = EmptyTree
    /\ delivered = FALSE
    /\ root = NewFamilyset
    /\ familyset = NewFamilyset
    /\ idx = 0
    /\ family_with_lang_inserted = FALSE
    /\ dom_string = <<>>

\* The exception caught and passed over: control goes on to the archive.
Raise_Swallowed(type, at) ==
    /\ exc' = [type |-> type, at |-> at]
    /\ pc' = "make_archive"

\* An exception raised inside the with block of package_module: control
\* goes to the block's exit.
Raise(type, at) ==
    /\ exc' = [type |-> type, at |-> at]
    /\ pc' = "cleanup"

\* Lines 138-140 without the test.
MainCheckFont_Unchecked ==
    /\ pc = "main"
    /\ pc' = "construct"
    /\ UNCHANGED <<exc, exit_code, env_vars, self_vars, out_vars, xml_vars>>

\* Lines 138-140.
MainCheckFont ==
    /\ pc = "main"
    /\ IF font_state = "missing"
       THEN pc' = "exit" /\ exit_code' = -1
       ELSE pc' = "construct" /\ UNCHANGED exit_code
    /\ UNCHANGED <<exc, env_vars, self_vars, out_vars, xml_vars>>

\* Lines 142-161 and 19-23: the packager's fields and the call's arguments.
Construct ==
    /\ pc = "construct"
    /\ font_file_name' = basename(font_path)
    /\ font_name' = FontNameOf(font_name_arg, font_path)
    /\ kwargs' = module_props(FontNameOf(font_name_arg, font_path))
    /\ pc' = "mkdtemp"
    /\ UNCHANGED <<exc, exit_code, env_vars, out_vars, xml_vars>>

\* Line 84: entering the with block.
EnterTemporaryDirectory ==
    /\ pc = "mkdtemp"
    /\ temp_exists' = TRUE
    /\ cwd' = EmptyTree
    /\ pc' = "copytree"
    /\ UNCHANGED <<exc, exit_code, env_vars, self_vars, archive_state, archive_tree,
                   delivered, xml_vars>>

\* Lines 85-86.
CopyTemplate ==
    /\ pc = "copytree"
    /\ IF template_exists
       THEN cwd' = template /\ pc' = "copy" /\ UNCHANGED exc
       ELSE Raise("OSError", "copytree") /\ UNCHANGED cwd
    /\ UNCHANGED <<exit_code, env_vars, self_vars, temp_exists, archive_state,
                   archive_tree, delivered, xml_vars>>

\* Line 87.
CopyFont ==
    /\ pc = "copy"
    /\ IF font_state = "ok"
       THEN /\ cwd' = [cwd EXCEPT !.fonts = CopyInto(@, font_file_name, font_bytes)]
            /\ pc' = "module_prop"
            /\ UNCHANGED exc
       ELSE Raise("OSError", "copy") /\ UNCHANGED cwd
    /\ UNCHANGED <<exit_code, env_vars, self_vars, temp_exists, archive_state,
                   archive_tree, delivered, xml_vars>>

\* Lines 88-91: the file is opened, which empties it, and then written.
WriteModuleProp ==
    /\ pc = "module_prop"
    /\ IF fault = "module_prop"
       THEN /\ cwd' = [cwd EXCEPT !.module_prop = open_w(@)]
            /\ Raise("OSError", "module_prop")
       ELSE /\ cwd' = [cwd EXCEPT !.module_prop = open_w(@) \o PropText(kwargs, 1)]
            /\ pc' = "font_xml"
            /\ UNCHANGED exc
    /\ UNCHANGED <<exit_code, env_vars, self_vars, temp_exists, archive_state,
                   archive_tree, delivered, xml_vars>>

\* Lines 92-93: fonts.xml is opened before __parse_font_xml is called.
OpenFontXml ==
    /\ pc = "font_xml"
    /\ cwd' = [cwd EXCEPT !.fonts_xml = open_w(@)]
    /\ pc' = "parse"
    /\ UNCHANGED <<exc, exit_code, env_vars, self_vars, temp_exists, archive_state,
                   archive_tree, delivered, xml_vars>>

\* Lines 27-30, the document being well-formed.
ParseBase ==
    /\ pc = "parse"
    /\ base_state = "ok"
    /\ root' = base_doc
    /\ familyset' = NewFamilyset
    /\ pc' = "fallback"
    /\ UNCHANGED <<exc, exit_code, env_vars, self_vars, out_vars, idx,
                   family_with_lang_inserted, dom_string>>

\* Line 27, the document missing or malformed: ElementTree.parse raises.
ParseBaseFails ==
    /\ pc = "parse"
    /\ base_state # "ok"
    /\ Raise(IF base_state = "malformed" THEN "ParseError" ELSE "OSError", "font_xml")
    /\ UNCHANGED <<exit_code, env_vars, self_vars, out_vars, xml_vars>>

\* Lines 35-53.
AppendFallback ==
    /\ pc = "fallback"
    /\ familyset' = Append_child(familyset, sans_serif_family)
    /\ pc' = "custom"
    /\ UNCHANGED <<exc, exit_code, env_vars, self_vars, out_vars, root, idx,
                   family_with_lang_inserted, dom_string>>

\* Lines 55-63.
AppendCustom ==
    /\ pc = "custom"
    /\ familyset' = Append_child(familyset, custom_family(font_file_name))
    /\ family_with_lang_inserted' = FALSE
    /\ idx' = 0
    /\ pc' = "loop"
    /\ UNCHANGED <<exc, exit_code, env_vars, self_vars, out_vars, root, dom_string>>

\* Lines 64-76: one iteration, on the next child of root.
LoopChild ==
    /\ pc = "loop"
    /\ idx < Len(root.children)
    /\ LET r == LoopBody([familyset |-> familyset,
                          inserted |-> family_with_lang_inserted],
                         root.children[idx + 1], font_file_name)
       IN  /\ familyset' = r.familyset
           /\ family_with_lang_inserted' = r.inserted
           /\ root' = [root EXCEPT !.children[idx + 1] = r.child]
    /\ idx' = idx + 1
    /\ UNCHANGED <<pc, exc, exit_code, env_vars, self_vars, out_vars, dom_string>>

\* Lines 77-81, once the loop has visited every child.
Serialize ==
    /\ pc = "loop"
    /\ idx = Len(root.children)
    /\ dom_string' = PrettyPrint(familyset)
    /\ pc' = "write"
    /\ UNCHANGED <<exc, exit_code, env_vars, self_vars, out_vars, root, familyset,
                   idx, family_with_lang_inserted>>

\* Line 92 naming the template's fonts.xml instead of the staged one.
WriteFontXml_IntoTemplate ==
    /\ pc = "write"
    /\ IF fault = "font_xml"
       THEN Raise("OSError", "font_xml") /\ UNCHANGED template
       ELSE /\ template' = [template EXCEPT !.fonts_xml = dom_string]
            /\ pc' = "make_archive"
            /\ UNCHANGED exc
    /\ UNCHANGED <<exit_code, font_path, font_name_arg, font_config_arg, font_state,
                   font_bytes, template_exists, base_state, base_doc, fault,
                   self_vars, out_vars, xml_vars>>

\* Line 94: the returned text is written to the staged fonts.xml.
WriteFontXml ==
    /\ pc = "write"
    /\ IF fault = "font_xml"
       THEN Raise("OSError", "font_xml") /\ UNCHANGED cwd
       ELSE /\ cwd' = [cwd EXCEPT !.fonts_xml = @ \o dom_string]
            /\ pc' = "make_archive"
            /\ UNCHANGED exc
    /\ UNCHANGED <<exit_code, env_vars, self_vars, temp_exists, archive_state,
                   archive_tree, delivered, xml_vars>>

\* Lines 96-103.  A failure while the archive is being written leaves either
\* nothing new or a partial file at the archive's path.
MakeArchive ==
    /\ pc = "make_archive"
    /\ IF fault = "make_archive"
       THEN /\ archive_state' \in {archive_state, "partial"}
            /\ Raise("OSError", "make_archive")
            /\ UNCHANGED archive_tree
       ELSE /\ archive_state' = "complete"
            /\ archive_tree' = cwd
            /\ pc' = "cleanup"
            /\ UNCHANGED exc
    /\ UNCHANGED <<exit_code, env_vars, self_vars, temp_exists, cwd, delivered,
                   xml_vars>>

\* The directory removed after the block's last statement only, not on the
\* way out of an exception.
ExitTemporaryDirectory_OnReturnOnly ==
    /\ pc = "cleanup"
    /\ temp_exists' = (exc # NoExc)
    /\ cwd' = (IF exc = NoExc THEN EmptyTree ELSE cwd)
    /\ pc' = (IF exc = NoExc THEN "returned" ELSE "raised")
    /\ UNCHANGED <<exc, exit_code, env_vars, self_vars, archive_state, archive_tree,
                   delivered, xml_vars>>

\* Line 84: leaving the with block, by return or by exception.
ExitTemporaryDirectory ==
    /\ pc = "cleanup"
    /\ temp_exists' = FALSE
    /\ cwd' = EmptyTree
    /\ pc' = (IF exc = NoExc THEN "returned" ELSE "raised")
    /\ UNCHANGED <<exc, exit_code, env_vars, self_vars, archive_state, archive_tree,
                   delivered, xml_vars>>

\* Line 162.
CopyArchiveToCwd ==
    /\ pc = "returned"
    /\ delivered' = TRUE
    /\ pc' = "exit"
    /\ UNCHANGED <<exc, exit_code, env_vars, self_vars, temp_exists, cwd,
                   archive_state, archive_tree, xml_vars>>

\* The exception leaves main: the interpreter ends with status 1.
Uncaught ==
    /\ pc = "raised"
    /\ exit_code' = 1
    /\ pc' = "exit"
    /\ UNCHANGED <<exc, env_vars, self_vars, out_vars, xml_vars>>

Next ==
    \/ MainCheckFont
    \/ Construct
    \/ EnterTemporaryDirectory
    \/ CopyTemplate
    \/ CopyFont
    \/ WriteModuleProp
    \/ OpenFontXml
    \/ ParseBase
    \/ ParseBaseFails
    \/ AppendFallback
    \/ AppendCustom
    \/ LoopChild
    \/ Serialize
    \/ WriteFontXml
    \/ MakeArchive
    \/ ExitTemporaryDirectory
    \/ CopyArchiveToCwd
    \/ Uncaught

Spec == Init /\ [][Next]_vars

----------------------------------------------------------------------------
(* The transform alone: the state in which package_module calls             *)
(* __parse_font_xml, for every document of a set.                           *)

AtParse(docs) ==
    /\ pc = "parse"
    /\ exc = NoExc
    /\ exit_code = 0
    /\ font_path \in FontPaths
    /\ font_name_arg = ""
    /\ font_config_arg = TRUE
    /\ font_state = "ok"
    /\ font_bytes = "font-bytes"
    /\ template_exists = TRUE
    /\ template \in {t \in Templates : "MyFont.ttf" \notin DOMAIN t.fonts}
    /\ base_state = "ok"
    /\ base_doc \in docs
    /\ fault = ""
    /\ font_file_name = basename(font_path)
    /\ font_name = FontNameOf(font_name_arg, font_path)
    /\ kwargs = module_props(font_name)
    /\ temp_exists = TRUE
    /\ cwd = [template EXCEPT
                !.fonts = CopyInto(@, font_file_name, font_bytes),
                !.module_prop = PropText(kwargs, 1),
                !.fonts_xml = <<>>]
    /\ archive_state = "none"
    /\ archive_tree = EmptyTree
    /\ delivered = FALSE
    /\ root = NewFamilyset
    /\ familyset = NewFamilyset
    /\ idx = 0
    /\ family_with_lang_inserted = FALSE
    /\ dom_string = <<>>

InitXml == AtParse(BaseDocs)
InitText == AtParse(TextDocs)

NextXml ==
    \/ ParseBase
    \/ AppendFallback
    \/ AppendCustom
    \/ LoopChild
    \/ Serialize

SpecXml == InitXml /\ [][NextXml]_vars
SpecText == InitText /\ [][NextXml]_vars

----------------------------------------------------------------------------
(* Properties of the transform                                              *)

\* The top-level children of the document as stored, and of the result.
orig == base_doc.children
out == familyset.children

\* The loop has visited every child and the text has been produced.
TransformDone == pc = "write"

HasLang(e) == "lang" \in DOMAIN e.attrib
IsFamily(e) == e.tag = "family"
IsSansSerif(e) == "name" \in DOMAIN e.attrib /\ e.attrib["name"] = "sans-serif"

Least(S) == IF S = {} THEN 0 ELSE CHOOSE i \in S : \A j \in S : i <= j

\* The first child that carries lang, and the first family that does (0: none).
FirstLangChild == Least({i \in 1..Len(orig) : HasLang(orig[i])})
FirstLangFamily == Least({i \in 1..Len(orig) : IsFamily(orig[i]) /\ HasLang(orig[i])})

\* The positions after the two leading families that hold a zh-Hans family
\* as the transform builds it.
InsertedAt == {i \in 3..Len(out) : out[i] = family_with_lang(font_file_name)}

\* Where the i-th original child stands in the result when the zh-Hans family
\* stands before the k-th.
Pos(i, k) == i + 2 + (IF k > 0 /\ i >= k THEN 1 ELSE 0)

\* b is a, but for a name attribute that a may carry and b does not.
SameButName(a, b) ==
    /\ b.tag = a.tag /\ b.text = a.text /\ b.tail = a.tail /\ b.children = a.children
    /\ (DOMAIN b.attrib) \cup {"name"} = (DOMAIN a.attrib) \cup {"name"}
    /\ \A k \in (DOMAIN b.attrib) \ {"name"} : b.attrib[k] = a.attrib[k]
    /\ "name" \in DOMAIN b.attrib =>
          "name" \in DOMAIN a.attrib /\ b.attrib["name"] = a.attrib["name"]

\* C1 as stated: exactly one zh-Hans family is inserted, immediately before the
\* first top-level child that carries lang, and none when no child carries lang.
C1_AsStated ==
    TransformDone =>
        IF FirstLangChild = 0 THEN InsertedAt = {}
        ELSE /\ InsertedAt = {FirstLangChild + 2}
             /\ SameButName(orig[FirstLangChild], out[FirstLangChild + 3])

\* C1, amended: exactly one zh-Hans family is inserted, immediately before the
\* first top-level family element that carries lang, and none when no top-level
\* family carries lang; later families with lang insert nothing more.
C1_LangFamilyInsertedOnce ==
    TransformDone =>
        IF FirstLangFamily = 0 THEN InsertedAt = {}
        ELSE /\ InsertedAt = {FirstLangFamily + 2}
             /\ SameButName(orig[FirstLangFamily], out[FirstLangFamily + 3])

\* C1's case: two families carry lang, and the flag is set.
C1_Witness ==
    /\ TransformDone
    /\ \E i, j \in 1..Len(orig) :
          /\ i < j
          /\ IsFamily(orig[i]) /\ HasLang(orig[i])
          /\ IsFamily(orig[j]) /\ HasLang(orig[j])
    /\ family_with_lang_inserted

FamilyCount(elems) == Cardinality({i \in 1..Len(elems) : IsFamily(elems[i])})

\* C2 as stated: N top-level families give N + 2 when some top-level child
\* carries lang, N + 1 otherwise.
C2_AsStated ==
    TransformDone =>
        FamilyCount(out) = FamilyCount(orig) + (IF FirstLangChild # 0 THEN 2 ELSE 1)

\* C2, amended: N top-level families give N + 3 when some top-level family
\* carries lang, N + 2 otherwise.
C2_FamilyCount ==
    TransformDone =>
        FamilyCount(out) = FamilyCount(orig) + (IF FirstLangFamily # 0 THEN 3 ELSE 2)

\* C2's case: families and other children together, a family with lang among them.
C2_Witness ==
    /\ TransformDone
    /\ FirstLangFamily # 0
    /\ \E i \in 1..Len(orig) : ~IsFamily(orig[i])
    /\ FamilyCount(out) = FamilyCount(orig) + 3

\* C3: every top-level family that carried name="sans-serif" stands in the
\* result without name and with its other attributes as they were.
C3_SansSerifStripped ==
    TransformDone =>
        \A i \in 1..Len(orig) :
            IsFamily(orig[i]) /\ IsSansSerif(orig[i]) =>
                LET o == out[Pos(i, FirstLangFamily)]
                IN  /\ "name" \notin DOMAIN o.attrib
                    /\ DOMAIN o.attrib = (DOMAIN orig[i].attrib) \ {"name"}
                    /\ \A k \in DOMAIN o.attrib : o.attrib[k] = orig[i].attrib[k]

\* C3's case: two sans-serif families, the second one after the insertion and
\* carrying another attribute.
C3_Witness ==
    /\ TransformDone
    /\ Len(orig) >= 2
    /\ IsFamily(orig[1]) /\ IsSansSerif(orig[1]) /\ HasLang(orig[1])
    /\ IsFamily(orig[2]) /\ IsSansSerif(orig[2]) /\ HasLang(orig[2])
    /\ DOMAIN out[5].attrib = {"lang"}

\* C4: the result is the fallback family, the custom family, then every
\* original child once and in its order, with the zh-Hans family the only
\* element among them.
C4_Order ==
    TransformDone =>
        LET k == FirstLangFamily
        IN  /\ Len(out) = Len(orig) + 2 + (IF k > 0 THEN 1 ELSE 0)
            /\ out[1] = sans_serif_family
            /\ out[2] = custom_family(font_file_name)
            /\ k > 0 => out[k + 2] = family_with_lang(font_file_name)
            /\ \A i \in 1..Len(orig) : SameButName(orig[i], out[Pos(i, k)])
            /\ \A i \in 1..Len(orig) :
                  "name" \in DOMAIN orig[i].attrib /\ ~(IsFamily(orig[i]) /\ IsSansSerif(orig[i]))
                      => out[Pos(i, k)] = orig[i]

\* C4's case: the example, [family name=sans-serif, family lang=ja].
C4_Witness ==
    /\ TransformDone
    /\ orig = <<PlainFamily([name |-> "sans-serif"]), PlainFamily([lang |-> "ja"])>>
    /\ Len(out) = 5
    /\ out[3] = PlainFamily(NoAttrib)
    /\ out[4] = family_with_lang(font_file_name)
    /\ out[5] = PlainFamily([lang |-> "ja"])

----------------------------------------------------------------------------
(* The round trip *)

\* text.strip()
Strip(text) ==
    LET S == {i \in 1..Len(text) : text[i] \notin Whitespace}
    IN  IF S = {} THEN <<>>
        ELSE SubSeq(text, CHOOSE i \in S : \A j \in S : i <= j,
                          CHOOSE i \in S : \A j \in S : i >= j)

\* Between its first and last visible character the text has a line of white
\* space only.
HasInnerBlankLine(text) ==
    LET s == Strip(text)
    IN  \E i, j \in 1..Len(s) :
            /\ i < j /\ s[i] = "NL" /\ s[j] = "NL"
            /\ \A m \in (i + 1)..(j - 1) : s[m] \in Whitespace

RECURSIVE NoInnerBlankLines(_)
NoInnerBlankLines(e) ==
    /\ ~HasInnerBlankLine(e.text)
    /\ ~HasInnerBlankLine(e.tail)
    /\ \A i \in 1..Len(e.children) : NoInnerBlankLines(e.children[i])

\* Same tags, attributes and children, and the same text and tail once the
\* white space around them is dropped.
RECURSIVE EquivalentTrees(_, _)
EquivalentTrees(a, b) ==
    /\ a.tag = b.tag
    /\ a.attrib = b.attrib
    /\ Strip(a.text) = Strip(b.text)
    /\ Strip(a.tail) = Strip(b.tail)
    /\ Len(a.children) = Len(b.children)
    /\ \A i \in 1..Len(a.children) : EquivalentTrees(a.children[i], b.children[i])

\* C10 as stated: parsing the returned text gives the tree that was built,
\* text included.
C10_AsStated == TransformDone => fromstring(dom_string) = familyset

\* C10, amended: parsing the returned text gives a tree with the same tags,
\* attributes and children order as the tree that was built, and with the same
\* text and tail up to the white space around them (text of white space only
\* counting as no text), provided no text or tail of the tree has a line of
\* white space only between its first and last visible characters.
C10_RoundTrip ==
    TransformDone /\ NoInnerBlankLines(familyset) =>
        EquivalentTrees(fromstring(dom_string), familyset)

\* C10's case: a face with text and a child, and text over two lines, are
\* printed; the parsed tree is the built one only up to white space.
C10_Witness ==
    /\ TransformDone
    /\ NoInnerBlankLines(familyset)
    /\ \E i \in 1..Len(orig) : orig[i].children = <<AxisFont>>
    /\ \E i \in 1..Len(orig) : orig[i].children # <<>> /\ Len(Strip(orig[i].children[1].text)) = 3
    /\ fromstring(dom_string) # familyset

----------------------------------------------------------------------------
(* Properties of package_module and main *)

StagingSteps == {"copytree", "copy", "module_prop", "font_xml"}

\* The call of package_module has finished.
CallFinished == pc \in {"returned", "raised"} \/ (pc = "exit" /\ font_file_name # "")

\* C5: a call that returns leaves an archive whose module.prop is the given
\* items, one key=value line each and in their order, whose system/fonts holds
\* the font file under its base name with the source's bytes, and whose
\* system/etc/fonts.xml is the transform of the caller's document; the rest of
\* the tree is the template's.
C5_ArchiveContent ==
    pc = "returned" =>
        /\ archive_state = "complete"
        /\ LET lines == splitlines(Chars(archive_tree.module_prop))
           IN  /\ Len(lines) = Len(kwargs)
               /\ \A i \in 1..Len(lines) :
                     lines[i] = Chars(<<kwargs[i][1], "=">> \o kwargs[i][2])
               /\ archive_tree.module_prop[Len(archive_tree.module_prop)] = "NL"
        /\ basename(font_path) \in DOMAIN archive_tree.fonts
        /\ archive_tree.fonts[basename(font_path)] = font_bytes
        /\ \A n \in (DOMAIN template.fonts) \ {basename(font_path)} :
              n \in DOMAIN archive_tree.fonts /\ archive_tree.fonts[n] = template.fonts[n]
        /\ archive_tree.fonts_xml =
              PrettyPrint(TransformTree(base_doc, basename(font_path)))
        /\ archive_tree.rest = template.rest

\* C5's case: the caller's document is not the template's, the template holds a
\* font under the same name and a module.prop of its own.
C5_Witness ==
    /\ pc = "returned"
    /\ font_config_arg
    /\ base_doc # TemplateDoc
    /\ \E i \in 1..Len(orig) : HasLang(orig[i])
    /\ basename(font_path) \in DOMAIN template.fonts
    /\ template.module_prop # <<>>
    /\ archive_tree.fonts_xml # template.fonts_xml

\* C6: with no file at the font path the run ends with status -1, and no
\* staging directory exists at any point of it.
C6_NoStagingWithoutFont ==
    font_state = "missing" =>
        /\ ~temp_exists
        /\ cwd = EmptyTree
        /\ pc \in {"main", "exit"}
        /\ pc = "exit" => exit_code = -1

\* C6's case: the run with no font file has ended, the template being there.
C6_Witness ==
    /\ font_state = "missing"
    /\ template_exists
    /\ pc = "exit"
    /\ exit_code = -1

C8_StagingRemoved ==
    CallFinished =>
        /\ ~temp_exists
        /\ cwd = EmptyTree
        /\ pc = "returned" => archive_state = "complete"

\* C8's case: the archive step itself failed, with the tree fully staged.
C8_Witness ==
    /\ pc = "raised"
    /\ exc.at = "make_archive"
    /\ dom_string # <<>>
    /\ ~temp_exists

\* C9: no step changes the template directory, the font file or the caller's
\* document, nor whether they exist.
C9_SourcesUnchanged ==
    [][UNCHANGED <<template_exists, template, font_state, font_bytes, base_state,
                   base_doc>>]_vars

\* C9's case: the call has returned, the loop has changed the parsed tree, and
\* the document it was parsed from is as it was.
C9_Witness ==
    /\ pc = "returned"
    /\ root # base_doc
    /\ archive_state = "complete"
    /\ archive_tree.fonts_xml # template.fonts_xml

=============================================================================
